---------------------------- MODULE Spec2Model ----------------------------
(***************************************************************************)
(* Model of src/iberia.py: a linear script that creates the netCDF file    *)
(* data/iberia.nc with the netCDF4-python library.                         *)
(*                                                                         *)
(* The script's state is the dataset behind the single file handle (its    *)
(* dimensions, variables, attributes and array data), the script's local   *)
(* names (nlats, nlons, dates, the mgrid result) and the position in the   *)
(* script (pc, the source line of the next statement).                     *)
(*                                                                         *)
(* Floating point is modelled bit-exactly: a float is sign * m * 2^e with  *)
(* m an arbitrary-precision natural kept in limbs, and every operation     *)
(* rounds to nearest, ties to even, at the precision of its type (53 bits  *)
(* for Python floats and np.float64, 24 bits for np.float32).  All values  *)
(* of the script are in the normal range, so subnormals, infinities and    *)
(* NaN are not represented.                                                *)
(***************************************************************************)
EXTENDS Integers, Sequences, FiniteSets, TLC

(***************************************************************************)
(* Arbitrary-precision naturals: little-endian sequences of limbs in base  *)
(* Base, without leading (most significant) zero limbs; <<>> is zero.      *)
(***************************************************************************)
Base == 2^15

RECURSIVE Pow2(_)
Pow2(k) == IF k = 0 THEN 1 ELSE 2 * Pow2(k - 1)

RECURSIVE NatN(_)
NatN(n) == IF n = 0 THEN <<>> ELSE <<n % Base>> \o NatN(n \div Base)

RECURSIVE Trim(_)
Trim(a) == IF a = <<>> THEN <<>>
           ELSE IF a[Len(a)] = 0 THEN Trim(SubSeq(a, 1, Len(a) - 1))
           ELSE a

Limb(a, i) == IF i <= Len(a) THEN a[i] ELSE 0

MaxOf(x, y) == IF x >= y THEN x ELSE y

RECURSIVE AddFrom(_, _, _, _)
AddFrom(a, b, i, carry) ==
    IF i > MaxOf(Len(a), Len(b))
    THEN (IF carry = 0 THEN <<>> ELSE <<carry>>)
    ELSE LET t == Limb(a, i) + Limb(b, i) + carry
         IN  <<t % Base>> \o AddFrom(a, b, i + 1, t \div Base)

AddN(a, b) == AddFrom(a, b, 1, 0)

\* a - b for a >= b
RECURSIVE SubFrom(_, _, _, _)
SubFrom(a, b, i, borrow) ==
    IF i > Len(a) THEN <<>>
    ELSE LET t == Limb(a, i) - Limb(b, i) - borrow
         IN  IF t < 0 THEN <<t + Base>> \o SubFrom(a, b, i + 1, 1)
                      ELSE <<t>> \o SubFrom(a, b, i + 1, 0)

SubN(a, b) == Trim(SubFrom(a, b, 1, 0))

\* -1, 0, 1 as a < b, a = b, a > b
RECURSIVE CmpFrom(_, _, _)
CmpFrom(a, b, i) ==
    IF i = 0 THEN 0
    ELSE IF a[i] < b[i] THEN -1
    ELSE IF a[i] > b[i] THEN 1
    ELSE CmpFrom(a, b, i - 1)

CmpN(a, b) == IF Len(a) < Len(b) THEN -1
              ELSE IF Len(a) > Len(b) THEN 1
              ELSE CmpFrom(a, b, Len(a))

\* a * k for a limb-sized k (0 <= k < Base)
RECURSIVE MulSmallFrom(_, _, _, _)
MulSmallFrom(a, k, i, carry) ==
    IF i > Len(a)
    THEN (IF carry = 0 THEN <<>> ELSE <<carry>>)
    ELSE LET t == a[i] * k + carry
         IN  <<t % Base>> \o MulSmallFrom(a, k, i + 1, t \div Base)

MulSmall(a, k) == Trim(MulSmallFrom(a, k, 1, 0))

ZeroLimbs(n) == [i \in 1..n |-> 0]

ShiftLimbs(a, n) == IF a = <<>> THEN <<>> ELSE ZeroLimbs(n) \o a

RECURSIVE MulFrom(_, _, _)
MulFrom(a, b, i) ==
    IF i > Len(b) THEN <<>>
    ELSE AddN(ShiftLimbs(MulSmall(a, b[i]), i - 1), MulFrom(a, b, i + 1))

MulN(a, b) == MulFrom(a, b, 1)

\* a * 2^k
ShlN(a, k) == ShiftLimbs(MulSmall(a, Pow2(k % 15)), k \div 15)

\* floor(a / k) for a limb-sized k, from the most significant limb down
RECURSIVE DivSmallFrom(_, _, _, _)
DivSmallFrom(a, k, i, rem) ==
    IF i = 0 THEN <<>>
    ELSE LET t == rem * Base + a[i]
         IN  DivSmallFrom(a, k, i - 1, t % k) \o <<t \div k>>

DivSmall(a, k) == Trim(DivSmallFrom(a, k, Len(a), 0))

\* floor(a / 2^k)
ShrN(a, k) ==
    LET w == k \div 15
    IN  IF w >= Len(a) THEN <<>>
        ELSE DivSmall(SubSeq(a, w + 1, Len(a)), Pow2(k % 15))

RECURSIVE BitsOfLimb(_)
BitsOfLimb(x) == IF x = 0 THEN 0 ELSE 1 + BitsOfLimb(x \div 2)

BitLen(a) == IF a = <<>> THEN 0 ELSE 15 * (Len(a) - 1) + BitsOfLimb(a[Len(a)])

IsOdd(a) == a # <<>> /\ a[1] % 2 = 1

\* Binary long division of r by b over the quotient bits hi down to lo
\* (r < b * 2^(hi+1)): the quotient bits found, and the remainder.  The
\* range is halved at each level to keep the evaluation shallow.
RECURSIVE DivBits(_, _, _, _)
DivBits(r, b, hi, lo) ==
    IF hi = lo
    THEN LET d == ShlN(b, hi)
         IN  IF CmpN(r, d) >= 0
             THEN [q |-> ShlN(<<1>>, hi), r |-> SubN(r, d)]
             ELSE [q |-> <<>>, r |-> r]
    ELSE LET mid   == (hi + lo + 1) \div 2
             upper == DivBits(r, b, hi, mid)
             lower == DivBits(upper.r, b, mid - 1, lo)
         IN  [q |-> AddN(upper.q, lower.q), r |-> lower.r]

\* floor(a / b) and a mod b, for b # 0
DivModN(a, b) == DivBits(a, b, MaxOf(BitLen(a) - BitLen(b), 0), 0)

RECURSIVE IntOfFrom(_, _)
IntOfFrom(a, i) == IF i > Len(a) THEN 0 ELSE a[i] + Base * IntOfFrom(a, i + 1)

\* the value of a small natural as an integer
IntOf(a) == IntOfFrom(a, 1)

(***************************************************************************)
(* Binary floating point.  A float is the record [s, m, e] standing for    *)
(* s * m * 2^e with s in {1, -1}; the representation is canonical (m odd,  *)
(* zero is [1, <<>>, 0]) so that equal values are equal records.           *)
(***************************************************************************)
P64 == 53
P32 == 24

FZero == [s |-> 1, m |-> <<>>, e |-> 0]

\* the number of trailing zero bits of a limb x > 0
RECURSIVE TrailingZeros(_)
TrailingZeros(x) == IF x % 2 = 1 THEN 0 ELSE 1 + TrailingZeros(x \div 2)

RECURSIVE ZeroLimbsBelow(_, _)
ZeroLimbsBelow(m, i) == IF m[i] # 0 THEN i - 1 ELSE ZeroLimbsBelow(m, i + 1)

Canon(s, m, e) ==
    IF m = <<>> THEN FZero
    ELSE LET w  == ZeroLimbsBelow(m, 1)
             m1 == SubSeq(m, w + 1, Len(m))
             b  == TrailingZeros(m1[1])
         IN  [s |-> s, m |-> DivSmall(m1, Pow2(b)), e |-> e + 15 * w + b]

\* s * m * 2^e rounded to p significant bits, to nearest, ties to even
Round(s, m, e, p) ==
    LET n == BitLen(m)
    IN  IF n <= p THEN Canon(s, m, e)
        ELSE LET k    == n - p
                 q    == ShrN(m, k)
                 rem  == SubN(m, ShlN(q, k))
                 c    == CmpN(rem, ShlN(<<1>>, k - 1))
                 up   == c > 0 \/ (c = 0 /\ IsOdd(q))
             IN  Canon(s, IF up THEN AddN(q, <<1>>) ELSE q, e + k)

FromInt(n) == IF n >= 0 THEN Canon(1, NatN(n), 0) ELSE Canon(-1, NatN(-n), 0)

\* x / y (y # 0) rounded to p bits: the quotient is taken to at least p + 2
\* bits and a sticky bit records a non-zero remainder
FDiv(x, y, p) ==
    IF x.m = <<>> THEN FZero
    ELSE LET sh == MaxOf(p + 2 + BitLen(y.m) - BitLen(x.m), 0)
             dm == DivModN(ShlN(x.m, sh), y.m)
             q2 == AddN(ShlN(dm.q, 1), IF dm.r = <<>> THEN <<>> ELSE <<1>>)
         IN  Round(x.s * y.s, q2, x.e - y.e - sh - 1, p)

FMul(x, y, p) == Round(x.s * y.s, MulN(x.m, y.m), x.e + y.e, p)

FNeg(x) == IF x.m = <<>> THEN x ELSE [x EXCEPT !.s = -x.s]

\* -1, 0, 1 as x < y, x = y, x > y
FCmp(x, y) ==
    LET e  == IF x.e <= y.e THEN x.e ELSE y.e
        mx == ShlN(x.m, x.e - e)
        my == ShlN(y.m, y.e - e)
    IN  IF x.m = <<>> /\ y.m = <<>> THEN 0
        ELSE IF x.m = <<>> THEN -y.s
        ELSE IF y.m = <<>> THEN x.s
        ELSE IF x.s # y.s THEN x.s
        ELSE x.s * CmpN(mx, my)

FAdd(x, y, p) ==
    LET e  == IF x.e <= y.e THEN x.e ELSE y.e
        mx == ShlN(x.m, x.e - e)
        my == ShlN(y.m, y.e - e)
    IN  IF x.m = <<>> THEN y
        ELSE IF y.m = <<>> THEN x
        ELSE IF x.s = y.s THEN Round(x.s, AddN(mx, my), e, p)
        ELSE IF CmpN(mx, my) >= 0 THEN Round(x.s, SubN(mx, my), e, p)
        ELSE Round(y.s, SubN(my, mx), e, p)

FSub(x, y, p) == FAdd(x, FNeg(y), p)

\* conversion to another precision (np.float64 -> np.float32 on assignment)
Cast(x, p) == Round(x.s, x.m, x.e, p)

\* a decimal literal num/den of the source text, as the Python float it denotes
Lit(num, den) == FDiv(FromInt(num), FromInt(den), P64)

\* math.ceil of a float, as an integer
Ceil(x) ==
    IF x.e >= 0 THEN x.s * IntOf(ShlN(x.m, x.e))
    ELSE IF x.s = 1 THEN IntOf(ShrN(x.m, -x.e)) + 1
    ELSE -IntOf(ShrN(x.m, -x.e))

\* whether the float x is exactly the rational num/den (den > 0)
IsRational(x, num, den) ==
    LET n == IF num >= 0 THEN num ELSE -num
    IN  /\ (num = 0) = (x.m = <<>>)
        /\ num # 0 => x.s = (IF num > 0 THEN 1 ELSE -1)
        /\ IF x.e >= 0
           THEN MulSmall(ShlN(x.m, x.e), den) = NatN(n)
           ELSE MulSmall(x.m, den) = ShlN(NatN(n), -x.e)

\* the float of precision p nearest to the rational num/den
Nearest(num, den, p) == FDiv(FromInt(num), FromInt(den), p)

(***************************************************************************)
(* Bounds of the model.                                                    *)
(***************************************************************************)
\* array elements are kept for the rows and columns within TrackEdge of a
\* border of the grid
TrackEdge == 1
\* numpy.random.uniform draws one of the sample arrays 0..MaxSeed
MaxSeed == 2
\* time.time() returns one of the instants 0..MaxClock
MaxClock == 1

(***************************************************************************)
(* Calendar arithmetic of datetime and of num2date/date2num for dates of   *)
(* the Gregorian calendar (the 'standard' calendar after 1582-10-15).      *)
(* A date is [year, month, day, hour, minute, second].                     *)
(***************************************************************************)
IsLeap(y) == y % 4 = 0 /\ (y % 100 # 0 \/ y % 400 = 0)

DaysInMonth(y, m) ==
    IF m = 2 THEN (IF IsLeap(y) THEN 29 ELSE 28)
    ELSE IF m \in {4, 6, 9, 11} THEN 30 ELSE 31

RECURSIVE DaysBeforeMonth(_, _)
DaysBeforeMonth(y, m) ==
    IF m = 1 THEN 0 ELSE DaysBeforeMonth(y, m - 1) + DaysInMonth(y, m - 1)

\* DaysBeforeYear without the leap days
DaysBeforeYearNoLeap(y) == (y - 1) * 365

DaysBeforeYear(y) ==
    (y - 1) * 365 + (y - 1) \div 4 - (y - 1) \div 100 + (y - 1) \div 400

\* the proleptic Gregorian ordinal of a date, 0001-01-01 being day 1
ToOrdinal(d) == DaysBeforeYear(d.year) + DaysBeforeMonth(d.year, d.month) + d.day

\* the month and day of the n-th day (from 0) of year y, searching from month m
RECURSIVE MonthDay(_, _, _)
MonthDay(y, m, n) ==
    IF n < DaysInMonth(y, m) THEN [month |-> m, day |-> n + 1]
    ELSE MonthDay(y, m + 1, n - DaysInMonth(y, m))

\* the year, month and day of an ordinal, by 400-, 100-, 4- and 1-year cycles
FromOrdinal(ord) ==
    LET n0   == ord - 1
        n400 == n0 \div 146097
        r400 == n0 % 146097
        n100 == r400 \div 36524
        r100 == r400 % 36524
        n4   == r100 \div 1461
        r4   == r100 % 1461
        n1   == r4 \div 365
        r1   == r4 % 365
        y    == n400 * 400 + n100 * 100 + n4 * 4 + n1 + 1
    IN  IF n1 = 4 \/ n100 = 4
        THEN [year |-> y - 1, month |-> 12, day |-> 31]
        ELSE LET md == MonthDay(y, 1, r1)
             IN  [year |-> y, month |-> md.month, day |-> md.day]

datetime(y, m, d) ==
    [year |-> y, month |-> m, day |-> d, hour |-> 0, minute |-> 0, second |-> 0]

\* the hours from 0001-01-01 00:00 to a date on a whole hour
HoursOf(d) == (ToOrdinal(d) - 1) * 24 + d.hour

\* the date h whole hours after 0001-01-01 00:00
DateOfHours(h) ==
    LET ymd == FromOrdinal(h \div 24 + 1)
    IN  [year |-> ymd.year, month |-> ymd.month, day |-> ymd.day,
         hour |-> h % 24, minute |-> 0, second |-> 0]

\* datetime + n * timedelta(hours=1)
PlusHours(d, n) == DateOfHours(HoursOf(d) + n)

\* the unit and reference date of a CF time-units string
ParseUnits(units) ==
    IF units = <<"hours since 2001-01-01 00:00:00">>
    THEN [unit |-> "hours", since |-> datetime(2001, 1, 1)]
    ELSE [unit |-> "invalid", since |-> datetime(1, 1, 1)]

\* date2num of one date: the hours since the reference date, as a float
date2num(d, units, calendar) ==
    FromInt(HoursOf(d) - HoursOf(ParseUnits(units).since))

\* the integer value of a float holding a whole number
IntOfFloat(x) == x.s * IntOf(ShlN(x.m, x.e))

\* num2date losing an hour to truncation
num2dateTruncated(x, units, calendar) ==
    DateOfHours(HoursOf(ParseUnits(units).since) + IntOfFloat(x) - 1)

\* num2date of one number of whole hours
num2date(x, units, calendar) ==
    DateOfHours(HoursOf(ParseUnits(units).since) + IntOfFloat(x))

(***************************************************************************)
(* The state of the script.                                                *)
(***************************************************************************)
VARIABLES
    pc,          \* the source line of the next statement
    sub,         \* the position inside that line: loop iteration or operand
    status,      \* "running", "raised" (uncaught exception) or "done"
    isopen,      \* whether the file handle `dataset` is open
    file_format, \* dataset.file_format
    dimensions,  \* dataset.dimensions, in creation order
    variables,   \* dataset.variables, in creation order
    attrs,       \* the global and variable attributes, in the order first set
    data,        \* the array data of each variable, on its kept cells
    grid,        \* the value of the np.mgrid expression of line 135
    nlats,       \* the script's nlats
    nlons,       \* the script's nlons
    dates,       \* the script's dates
    calls,       \* the library operations performed so far, in order
    out          \* what the script has printed

vars == <<pc, sub, status, isopen, file_format, dimensions, variables, attrs,
          data, grid, nlats, nlons, dates, calls, out>>

\* the statements with dataset.close() ahead of the date conversions
LinesCloseEarly ==
    <<36, 39, 43, 44, 45, 53, 64, 68, 69, 72, 79, 80, 91, 92, 93,
      100, 101, 102, 103, 104, 105, 107, 108, 109, 110, 111, 112, 113,
      114, 121, 122, 135, 137, 138, 152, 153, 154, 156, 167, 169, 190,
      191, 200, 194, 195, 196, 197>>

\* the statements of the script, by source line, in execution order
Lines == <<36, 39, 43, 44, 45, 53, 64, 68, 69, 72, 79, 80, 91, 92, 93,
           100, 101, 102, 103, 104, 105, 107, 108, 109, 110, 111, 112, 113,
           114, 121, 122, 135, 137, 138, 152, 153, 154, 156, 167, 169, 190,
           191, 194, 195, 196, 197, 200>>

\* the line after the last statement
EndLine == 201

IndexOf(line) == CHOOSE i \in 1..Len(Lines) : Lines[i] = line

After(line) == IF IndexOf(line) = Len(Lines) THEN EndLine
               ELSE Lines[IndexOf(line) + 1]

\* the createDimension statements with the two grid lengths exchanged
DimStmtsSwapped ==
    (43 :> [name |-> "south_north", size |-> 400, unlimited |-> FALSE]) @@
    (44 :> [name |-> "west_east", size |-> 320, unlimited |-> FALSE]) @@
    (45 :> [name |-> "time", size |-> 0, unlimited |-> TRUE])

\* the createDimension statements (size 0 with unlimited for size None)
DimStmts ==
    (43 :> [name |-> "south_north", size |-> 320, unlimited |-> FALSE]) @@
    (44 :> [name |-> "west_east", size |-> 400, unlimited |-> FALSE]) @@
    (45 :> [name |-> "time", size |-> 0, unlimited |-> TRUE])

\* the createVariable statements
VarStmts ==
    (64 :> [name |-> "time", dtype |-> "float64", dimensions |-> <<"time">>]) @@
    (68 :> [name |-> "lat", dtype |-> "float32",
            dimensions |-> <<"south_north", "west_east">>]) @@
    (69 :> [name |-> "lon", dtype |-> "float32",
            dimensions |-> <<"south_north", "west_east">>]) @@
    (72 :> [name |-> "temp", dtype |-> "float32",
            dimensions |-> <<"time", "south_north", "west_east">>])

\* the attribute assignments with a literal value
AttrStmts ==
    (91 :> [of |-> "dataset", name |-> "description",
            value |-> <<"Iberia en 400x320 celdas (3kmx3km por celda)">>]) @@
    (93 :> [of |-> "dataset", name |-> "source", value |-> <<"">>]) @@
    (100 :> [of |-> "lat", name |-> "units", value |-> <<"degrees_north">>]) @@
    (101 :> [of |-> "lat", name |-> "long_name", value |-> <<"Latitude">>]) @@
    (102 :> [of |-> "lat", name |-> "standard_name", value |-> <<"latitude">>]) @@
    (103 :> [of |-> "lon", name |-> "units", value |-> <<"degrees_east">>]) @@
    (104 :> [of |-> "lon", name |-> "long_name", value |-> <<"Longitude">>]) @@
    (105 :> [of |-> "lon", name |-> "standard_name", value |-> <<"longitude">>]) @@
    (107 :> [of |-> "temp", name |-> "long_name",
             value |-> <<"Temperature at 2 m">>]) @@
    (108 :> [of |-> "temp", name |-> "standard_name",
             value |-> <<"air_temperature">>]) @@
    (109 :> [of |-> "temp", name |-> "units", value |-> <<"degC">>]) @@
    (110 :> [of |-> "temp", name |-> "coordinates", value |-> <<"lon lat">>]) @@
    (111 :> [of |-> "time", name |-> "units",
             value |-> <<"hours since 2001-01-01 00:00:00">>]) @@
    (112 :> [of |-> "time", name |-> "calendar", value |-> <<"standard">>]) @@
    (113 :> [of |-> "time", name |-> "long_name", value |-> <<"Time">>]) @@
    (114 :> [of |-> "time", name |-> "standard_name", value |-> <<"time">>])

\* the statements that only print
PrintLines == {39, 79, 121, 122, 137, 138, 152, 169, 195, 197}

\* the lines on which a library call can raise
LibraryLines == {l \in 1..EndLine : \E i \in 1..Len(Lines) : Lines[i] = l} \ {190, 197}

(***************************************************************************)
(* The netCDF4 data model: dimensions, variables, shapes and array data.   *)
(***************************************************************************)
HasDim(dims, name) == \E i \in 1..Len(dims) : dims[i].name = name

DimOf(dims, name) == dims[CHOOSE i \in 1..Len(dims) : dims[i].name = name]

HasVar(vs, name) == \E i \in 1..Len(vs) : vs[i].name = name

VarOf(vs, name) == vs[CHOOSE i \in 1..Len(vs) : vs[i].name = name]

\* Variable.shape: the current lengths of the variable's dimensions
ShapeOf(dims, v) == [i \in 1..Len(v.dimensions) |-> DimOf(dims, v.dimensions[i]).size]

\* the precision of a variable's element type
PrecOf(v) == IF v.dtype = "float32" THEN P32 ELSE P64

\* the default fill value of float and double variables, 15 * 2^119
\* (9.969209968386869e+36), held by elements never written
FillValue == [s |-> 1, m |-> <<15>>, e |-> 119]

\* the indices within TrackEdge of either end of an axis of length n
Edge(n) == {i \in 0..(n - 1) : i < TrackEdge \/ i >= n - TrackEdge}

\* The cells of an array of the given shape whose elements the model keeps:
\* all of a vector, the border rows and columns of a 2-d grid, and for each
\* index of the leading axis the corner cells of a 3-d array.
Cells(shape) ==
    IF Len(shape) = 1 THEN {<<i>> : i \in 0..(shape[1] - 1)}
    ELSE IF Len(shape) = 2
    THEN {<<j, c>> : j \in 0..(shape[1] - 1), c \in Edge(shape[2])}
         \cup {<<j, c>> : j \in Edge(shape[1]), c \in 0..(shape[2] - 1)}
    ELSE {<<i, j, c>> : i \in 0..(shape[1] - 1), j \in Edge(shape[2]),
                        c \in Edge(shape[3])}

\* the attribute `name` of `of`, or <<>> when it is not set
AttrOf(as, of, name) ==
    IF \E i \in 1..Len(as) : as[i].of = of /\ as[i].name = name
    THEN as[CHOOSE i \in 1..Len(as) : as[i].of = of /\ as[i].name = name].value
    ELSE <<>>

\* setattr: replace the value of an attribute already set, else add it
SetAttr(as, a) ==
    IF \E i \in 1..Len(as) : as[i].of = a.of /\ as[i].name = a.name
    THEN [i \in 1..Len(as) |->
            IF as[i].of = a.of /\ as[i].name = a.name THEN a ELSE as[i]]
    ELSE Append(as, a)

\* An array value is [shape, val]: its shape and its elements on the kept
\* cells.

\* the key `:` and the key `start:stop` of one axis
All == [all |-> TRUE, start |-> 0, stop |-> 0]
Slice(start, stop) == [all |-> FALSE, start |-> start, stop |-> stop]

MinOf(x, y) == IF x <= y THEN x ELSE y

\* an unlimited dimension that does not grow
GrowToKeep(size, start, count) == size

\* the length of an unlimited dimension of length size after a write of
\* count elements from index start
GrowTo(size, start, count) == MaxOf(size, start + count)

\* Variable.__setitem__: var[key] = value.  The extent of the key along an
\* unlimited dimension is not clipped to the current length, and that
\* dimension grows to hold it; every variable over the grown dimension is
\* extended with fill values.  A value whose shape is not the shape of the
\* region raises (ok = FALSE).  The elements are converted to the
\* variable's type.
SetItem(dims, vs, dat, name, key, value) ==
    LET v         == VarOf(vs, name)
        n         == Len(v.dimensions)
        dim(i)    == DimOf(dims, v.dimensions[i])
        start(i)  == key[i].start
        count(i)  == IF dim(i).unlimited
                     THEN (IF key[i].all THEN value.shape[i]
                           ELSE key[i].stop - key[i].start)
                     ELSE (IF key[i].all THEN dim(i).size
                           ELSE MinOf(key[i].stop, dim(i).size) - key[i].start)
        ok        == /\ Len(key) = n
                     /\ Len(value.shape) = n
                     /\ \A i \in 1..n : value.shape[i] = count(i)
        grown(d)  == IF d.unlimited /\ \E i \in 1..n : v.dimensions[i] = d.name
                     THEN LET i == CHOOSE i \in 1..n : v.dimensions[i] = d.name
                          IN  [d EXCEPT !.size = GrowTo(d.size, start(i), count(i))]
                     ELSE d
        newdims   == [i \in 1..Len(dims) |-> grown(dims[i])]
        inside(c) == \A i \in 1..n : c[i] >= start(i) /\ c[i] < start(i) + count(i)
        from(c)   == [i \in 1..n |-> c[i] - start(i)]
        newdata   == [w \in DOMAIN dat |->
                        [c \in Cells(ShapeOf(newdims, VarOf(vs, w))) |->
                            IF w = name /\ inside(c)
                            THEN Cast(value.val[from(c)], PrecOf(v))
                            ELSE IF c \in DOMAIN dat[w] THEN dat[w][c]
                            ELSE FillValue]]
    IN  IF ok THEN [ok |-> TRUE, dimensions |-> newdims, data |-> newdata]
        ELSE [ok |-> FALSE, dimensions |-> dims, data |-> dat]

\* Variable.__getitem__: var[:]
GetItem(dims, vs, dat, name) ==
    [shape |-> ShapeOf(dims, VarOf(vs, name)), val |-> dat[name]]

\* the number of points taken as floor(...) + 1 instead of ceil(...)
MgridSizeFloor(sl) ==
    LET q == FDiv(FSub(sl.stop, sl.start, P64), FMul(sl.step, FromInt(1), P64), P64)
    IN  IF q.e >= 0 THEN IntOf(ShlN(q.m, q.e)) + 1
        ELSE IntOf(ShrN(q.m, -q.e)) + 1

\* np.mgrid[s1, s2] for slices start:stop:step of Python floats: axis i has
\* ceil((stop - start) / (step * 1.0)) points, and plane i of the result
\* holds index_i * step + start at every cell
MgridSize(sl) == Ceil(FDiv(FSub(sl.stop, sl.start, P64),
                           FMul(sl.step, FromInt(1), P64), P64))

mgrid(s1, s2) ==
    LET size     == <<MgridSize(s1), MgridSize(s2)>>
        at(sl, i) == FAdd(FMul(FromInt(i), sl.step, P64), sl.start, P64)
        row1     == [i \in 0..(size[1] - 1) |-> at(s1, i)]
        row2     == [i \in 0..(size[2] - 1) |-> at(s2, i)]
    IN  <<[shape |-> size, val |-> [c \in Cells(size) |-> row1[c[1]]]],
          [shape |-> size, val |-> [c \in Cells(size) |-> row2[c[2]]]]>>

\* the slices 35.5:44:0.0265625 and -9.5:4.5:0.035 of line 135
LatSlice == [start |-> Lit(355, 10), stop |-> Lit(44, 1), step |-> Lit(265625, 10000000)]
LonSlice == [start |-> Lit(-95, 10), stop |-> Lit(45, 10), step |-> Lit(35, 1000)]

\* the denominator of the sample values of numpy.random.uniform
RandDen == 100

\* numpy.random.uniform(size=shape): sample array number `seed` of values
\* in [0, 1)
uniform(seed, shape) ==
    LET u(c) == Lit((seed * 37 + c[1] * 11 + c[2] * 5 + c[3] * 3) % RandDen, RandDen)
    IN  [shape |-> shape, val |-> [c \in Cells(shape) |-> u(c)]]

\* scalar * array
Scale(x, a) == [shape |-> a.shape, val |-> [c \in DOMAIN a.val |-> FMul(x, a.val[c], P64)]]

\* the variant (1000*ii)+jj+kk of lines 162-165
FormulaThousand(n, nla, nlo) ==
    LET f(c) == FAdd(FAdd(FMul(FromInt(1000), FromInt(c[1]), P64),
                          FromInt(c[2]), P64), FromInt(c[3]), P64)
    IN  [shape |-> <<n, nla, nlo>>, val |-> [c \in Cells(<<n, nla, nlo>>) |-> f(c)]]

\* np.array of the nested list comprehension of line 167
Formula(n, nla, nlo) ==
    LET f(c) == FAdd(FAdd(FMul(Lit(100, 10), FromInt(c[1]), P64),
                          FromInt(c[2]), P64), FromInt(c[3]), P64)
    IN  [shape |-> <<n, nla, nlo>>, val |-> [c \in Cells(<<n, nla, nlo>>) |-> f(c)]]

(***************************************************************************)
(* The script.                                                             *)
(***************************************************************************)
Call(op, on) == [op |-> op, on |-> on]

Init ==
    /\ pc = 36
    /\ sub = 0
    /\ status = "running"
    /\ isopen = FALSE
    /\ file_format = ""
    /\ dimensions = <<>>
    /\ variables = <<>>
    /\ attrs = <<>>
    /\ data = <<>>
    /\ grid = <<>>
    /\ nlats = 0
    /\ nlons = 0
    /\ dates = <<>>
    /\ calls = <<>>
    /\ out = <<>>

\* control passes to the next statement
Goto(line) == pc' = line /\ sub' = 0 /\ status' = "running"

\* the statement raises: the script terminates with an uncaught exception
Fail == pc' = pc /\ sub' = sub /\ status' = "raised"

\* line 36: dataset = Dataset('data/iberia.nc', 'w', format='NETCDF4_CLASSIC')
OpenDataset ==
    /\ status = "running" /\ pc = 36
    /\ isopen' = TRUE
    /\ file_format' = "NETCDF4_CLASSIC"
    /\ dimensions' = <<>>
    /\ variables' = <<>>
    /\ attrs' = <<>>
    /\ data' = <<>>
    /\ calls' = Append(calls, Call("Dataset", "dataset"))
    /\ Goto(After(pc))
    /\ UNCHANGED <<grid, nlats, nlons, dates, out>>

\* lines 43-45: dataset.createDimension(name, size)
CreateDimension ==
    /\ status = "running" /\ pc \in DOMAIN DimStmts
    /\ IF isopen /\ ~HasDim(dimensions, DimStmts[pc].name)
       THEN /\ dimensions' = Append(dimensions, DimStmts[pc])
            /\ calls' = Append(calls, Call("createDimension", DimStmts[pc].name))
            /\ Goto(After(pc))
       ELSE dimensions' = dimensions /\ calls' = calls /\ Fail
    /\ UNCHANGED <<isopen, file_format, variables, attrs, data, grid, nlats,
                   nlons, dates, out>>

\* lines 53-55: one iteration of the loop over dataset.dimensions.keys()
QueryDimension ==
    /\ status = "running" /\ pc = 53
    /\ IF sub < Len(dimensions)
       THEN /\ out' = Append(out, [line |-> 55,
                        text |-> <<dimensions[sub + 1].name,
                                   ToString(dimensions[sub + 1].size),
                                   ToString(dimensions[sub + 1].unlimited)>>])
            /\ calls' = Append(calls, Call("len", dimensions[sub + 1].name))
            /\ IF sub + 1 < Len(dimensions)
               THEN pc' = pc /\ sub' = sub + 1 /\ status' = "running"
               ELSE Goto(After(pc))
       ELSE out' = out /\ calls' = calls /\ Goto(After(pc))
    /\ UNCHANGED <<isopen, file_format, dimensions, variables, attrs, data,
                   grid, nlats, nlons, dates>>

\* lines 64-72: dataset.createVariable(name, dtype, dimensions); every
\* element of the new variable holds the fill value
CreateVariable ==
    /\ status = "running" /\ pc \in DOMAIN VarStmts
    /\ IF /\ isopen
          /\ ~HasVar(variables, VarStmts[pc].name)
          /\ \A i \in 1..Len(VarStmts[pc].dimensions) :
                HasDim(dimensions, VarStmts[pc].dimensions[i])
       THEN /\ variables' = Append(variables, VarStmts[pc])
            /\ data' = [w \in DOMAIN data \cup {VarStmts[pc].name} |->
                          IF w \in DOMAIN data THEN data[w]
                          ELSE [c \in Cells(ShapeOf(dimensions, VarStmts[pc])) |->
                                   FillValue]]
            /\ calls' = Append(calls, Call("createVariable", VarStmts[pc].name))
            /\ Goto(After(pc))
       ELSE variables' = variables /\ data' = data /\ calls' = calls /\ Fail
    /\ UNCHANGED <<isopen, file_format, dimensions, attrs, grid, nlats, nlons,
                   dates, out>>

\* lines 80-82: one iteration of the loop over dataset.variables.keys()
QueryVariable ==
    /\ status = "running" /\ pc = 80
    /\ IF sub < Len(variables)
       THEN /\ out' = Append(out, [line |-> 82,
                        text |-> <<variables[sub + 1].name,
                                   variables[sub + 1].dtype,
                                   ToString(variables[sub + 1].dimensions),
                                   ToString(ShapeOf(dimensions, variables[sub + 1]))>>])
            /\ calls' = Append(calls, Call("shape", variables[sub + 1].name))
            /\ IF sub + 1 < Len(variables)
               THEN pc' = pc /\ sub' = sub + 1 /\ status' = "running"
               ELSE Goto(After(pc))
       ELSE out' = out /\ calls' = calls /\ Goto(After(pc))
    /\ UNCHANGED <<isopen, file_format, dimensions, variables, attrs, data,
                   grid, nlats, nlons, dates>>

\* lines 91, 93, 100-114: obj.name = 'literal'
SetAttribute ==
    /\ status = "running" /\ pc \in DOMAIN AttrStmts
    /\ IF isopen /\ (AttrStmts[pc].of = "dataset" \/ HasVar(variables, AttrStmts[pc].of))
       THEN /\ attrs' = SetAttr(attrs, AttrStmts[pc])
            /\ calls' = Append(calls, Call("setattr", AttrStmts[pc].of))
            /\ Goto(After(pc))
       ELSE attrs' = attrs /\ calls' = calls /\ Fail
    /\ UNCHANGED <<isopen, file_format, dimensions, variables, data, grid,
                   nlats, nlons, dates, out>>

\* line 92: dataset.history = 'Created ' + time.ctime(time.time())
SetHistory ==
    /\ status = "running" /\ pc = 92
    /\ \E t \in 0..MaxClock :
          attrs' = SetAttr(attrs, [of |-> "dataset", name |-> "history",
                                   value |-> <<"Created ", ToString(t)>>])
    /\ calls' = Append(calls, Call("setattr", "dataset"))
    /\ Goto(After(pc))
    /\ UNCHANGED <<isopen, file_format, dimensions, variables, data, grid,
                   nlats, nlons, dates, out>>

\* what a print statement reads and prints
PrintText(line) ==
    IF line = 39 THEN <<file_format>>
    ELSE IF line = 79 THEN <<"temp variable:",
                             ToString(ShapeOf(dimensions, VarOf(variables, "temp")))>>
    ELSE IF line = 121 THEN AttrOf(attrs, "dataset", "description")
    ELSE IF line = 122 THEN AttrOf(attrs, "dataset", "history")
    ELSE IF line = 137 THEN <<"latitudes =",
                              ToString(ShapeOf(dimensions, VarOf(variables, "lat")))>>
    ELSE IF line = 138 THEN <<"longitudes =",
                              ToString(ShapeOf(dimensions, VarOf(variables, "lon")))>>
    ELSE IF line = 152 THEN <<"temp shape before adding data = ",
                              ToString(ShapeOf(dimensions, VarOf(variables, "temp")))>>
    ELSE IF line = 169 THEN <<"temp shape after adding data = ",
                              ToString(ShapeOf(dimensions, VarOf(variables, "temp")))>>
    ELSE IF line = 195 THEN <<"time values", ToString(data["time"])>>
    ELSE <<"dates corresponding to time values:", ToString(dates)>>

PrintCall(line) ==
    IF line \in {39, 121, 122} THEN <<Call("getattr", "dataset")>>
    ELSE IF line = 79 THEN <<Call("getvar", "temp")>>
    ELSE IF line = 137 THEN <<Call("getitem", "lat")>>
    ELSE IF line = 138 THEN <<Call("getitem", "lon")>>
    ELSE IF line \in {152, 169} THEN <<Call("shape", "temp")>>
    ELSE IF line = 195 THEN <<Call("getattr", "time"), Call("getitem", "time")>>
    ELSE <<>>

\* lines 39, 79, 121, 122, 137, 138, 152, 169, 195, 197: print(...)
PrintStmt ==
    /\ status = "running" /\ pc \in PrintLines
    /\ out' = Append(out, [line |-> pc, text |-> PrintText(pc)])
    /\ calls' = calls \o PrintCall(pc)
    /\ Goto(After(pc))
    /\ UNCHANGED <<isopen, file_format, dimensions, variables, attrs, data,
                   grid, nlats, nlons, dates>>

\* line 135, right-hand side: np.mgrid[35.5:44:0.0265625, -9.5:4.5:0.035]
Mgrid ==
    /\ status = "running" /\ pc = 135 /\ sub = 0
    /\ grid' = mgrid(LatSlice, LonSlice)
    /\ calls' = Append(calls, Call("mgrid", "numpy"))
    /\ pc' = pc /\ sub' = 1 /\ status' = "running"
    /\ UNCHANGED <<isopen, file_format, dimensions, variables, attrs, data,
                   nlats, nlons, dates, out>>

\* var[key] = value, then control passes to (line, position)
Assign(name, key, value, line, position) ==
    LET r == SetItem(dimensions, variables, data, name, key, value)
    IN  IF isopen /\ HasVar(variables, name) /\ r.ok
        THEN /\ dimensions' = r.dimensions
             /\ data' = r.data
             /\ calls' = Append(calls, Call("setitem", name))
             /\ pc' = line /\ sub' = position /\ status' = "running"
        ELSE /\ dimensions' = dimensions
             /\ data' = data
             /\ calls' = calls
             /\ Fail

\* line 135, first target: latitudes[:] = (first plane of the grid)
AssignLatitudes ==
    /\ status = "running" /\ pc = 135 /\ sub = 1
    /\ Assign("lat", <<All, All>>, grid[1], pc, 2)
    /\ UNCHANGED <<isopen, file_format, variables, attrs, grid, nlats, nlons,
                   dates, out>>

\* line 135, second target: longitudes[:] = (second plane of the grid)
AssignLongitudes ==
    /\ status = "running" /\ pc = 135 /\ sub = 2
    /\ Assign("lon", <<All, All>>, grid[2], After(pc), 0)
    /\ UNCHANGED <<isopen, file_format, variables, attrs, grid, nlats, nlons,
                   dates, out>>

\* line 153: nlats = len(dataset.dimensions['south_north'])
ReadNlats ==
    /\ status = "running" /\ pc = 153
    /\ nlats' = DimOf(dimensions, "south_north").size
    /\ calls' = Append(calls, Call("len", "south_north"))
    /\ Goto(After(pc))
    /\ UNCHANGED <<isopen, file_format, dimensions, variables, attrs, data,
                   grid, nlons, dates, out>>

\* line 154: nlons = len(dataset.dimensions['west_east'])
ReadNlons ==
    /\ status = "running" /\ pc = 154
    /\ nlons' = DimOf(dimensions, "west_east").size
    /\ calls' = Append(calls, Call("len", "west_east"))
    /\ Goto(After(pc))
    /\ UNCHANGED <<isopen, file_format, dimensions, variables, attrs, data,
                   grid, nlats, dates, out>>

\* line 156: temp[0:24,:,:] = 10*uniform(size=(24,nlats,nlons))
AssignRandom ==
    /\ status = "running" /\ pc = 156
    /\ \E seed \in 0..MaxSeed :
          Assign("temp", <<Slice(0, 24), All, All>>,
                 Scale(FromInt(10), uniform(seed, <<24, nlats, nlons>>)),
                 After(pc), 0)
    /\ UNCHANGED <<isopen, file_format, variables, attrs, grid, nlats, nlons,
                   dates, out>>

\* line 167: temp[0:24,:,:] = np.array([[[(10.0*ii)+jj+kk ...]]])
AssignFormula ==
    /\ status = "running" /\ pc = 167
    /\ Assign("temp", <<Slice(0, 24), All, All>>, Formula(24, nlats, nlons),
              After(pc), 0)
    /\ UNCHANGED <<isopen, file_format, variables, attrs, grid, nlats, nlons,
                   dates, out>>

\* line 190: dates = []
InitDates ==
    /\ status = "running" /\ pc = 190
    /\ dates' = <<>>
    /\ Goto(After(pc))
    /\ UNCHANGED <<isopen, file_format, dimensions, variables, attrs, data,
                   grid, nlats, nlons, calls, out>>

\* lines 191-192: one iteration of `for n in range(temp.shape[0])`, n = sub:
\* dates.append(datetime(2020, 2, 1) + n * timedelta(hours=1)).  The range
\* is evaluated on entry (sub = 0); nothing in the loop changes temp.shape.
AppendDate ==
    /\ status = "running" /\ pc = 191
    /\ LET stop == ShapeOf(dimensions, VarOf(variables, "temp"))[1]
       IN  IF sub < stop
           THEN /\ dates' = Append(dates, PlusHours(datetime(2020, 2, 1), sub))
                /\ calls' = IF sub = 0 THEN Append(calls, Call("shape", "temp"))
                            ELSE calls
                /\ IF sub + 1 < stop
                   THEN pc' = pc /\ sub' = sub + 1 /\ status' = "running"
                   ELSE Goto(After(pc))
           ELSE /\ dates' = dates
                /\ calls' = Append(calls, Call("shape", "temp"))
                /\ Goto(After(pc))
    /\ UNCHANGED <<isopen, file_format, dimensions, variables, attrs, data,
                   grid, nlats, nlons, out>>

\* line 194: times[:] = date2num(dates, units=times.units, calendar=times.calendar)
StoreTimes ==
    /\ status = "running" /\ pc = 194
    /\ LET units    == AttrOf(attrs, "time", "units")
           calendar == AttrOf(attrs, "time", "calendar")
           num(c)   == date2num(dates[c[1] + 1], units, calendar)
           nums     == [shape |-> <<Len(dates)>>,
                        val |-> [c \in Cells(<<Len(dates)>>) |-> num(c)]]
           r        == SetItem(dimensions, variables, data, "time", <<All>>, nums)
       IN  IF /\ isopen /\ HasVar(variables, "time") /\ r.ok
              /\ ParseUnits(units).unit = "hours" /\ calendar = <<"standard">>
           THEN /\ dimensions' = r.dimensions
                /\ data' = r.data
                /\ calls' = calls \o <<Call("getattr", "time"), Call("date2num", "netCDF4"),
                                       Call("setitem", "time")>>
                /\ Goto(After(pc))
           ELSE /\ dimensions' = dimensions
                /\ data' = data
                /\ calls' = calls
                /\ Fail
    /\ UNCHANGED <<isopen, file_format, variables, attrs, grid, nlats, nlons,
                   dates, out>>

\* line 196: dates = num2date(times[:], units=times.units, calendar=times.calendar)
ReadDates ==
    /\ status = "running" /\ pc = 196
    /\ LET units    == AttrOf(attrs, "time", "units")
           calendar == AttrOf(attrs, "time", "calendar")
           a        == GetItem(dimensions, variables, data, "time")
       IN  IF /\ isopen /\ HasVar(variables, "time")
              /\ ParseUnits(units).unit = "hours" /\ calendar = <<"standard">>
           THEN /\ dates' = [n \in 1..a.shape[1] |->
                                num2date(a.val[<<n - 1>>], units, calendar)]
                /\ calls' = calls \o <<Call("getitem", "time"), Call("getattr", "time"),
                                       Call("num2date", "netCDF4")>>
                /\ Goto(After(pc))
           ELSE /\ dates' = dates
                /\ calls' = calls
                /\ Fail
    /\ UNCHANGED <<isopen, file_format, dimensions, variables, attrs, data,
                   grid, nlats, nlons, out>>

\* line 200: dataset.close(), the last statement of the script
CloseDataset ==
    /\ status = "running" /\ pc = 200
    /\ IF isopen
       THEN /\ isopen' = FALSE
            /\ calls' = Append(calls, Call("close", "dataset"))
            /\ pc' = After(pc) /\ sub' = 0 /\ status' = "done"
       ELSE isopen' = isopen /\ calls' = calls /\ Fail
    /\ UNCHANGED <<file_format, dimensions, variables, attrs, data, grid,
                   nlats, nlons, dates, out>>

\* a raise handled by closing the dataset, as a `finally` clause would
RaiseClosing ==
    /\ status = "running" /\ pc \in {l \in 1..201 : l # 190 /\ l # 197}
    /\ isopen
    /\ isopen' = FALSE
    /\ calls' = Append(calls, [op |-> "close", on |-> "dataset"])
    /\ pc' = pc /\ sub' = sub /\ status' = "raised"
    /\ UNCHANGED <<file_format, dimensions, variables, attrs, data,
                   grid, nlats, nlons, dates, out>>

\* A library call of the current statement raises (an I/O error, for
\* instance).  The script has no try, with or finally: the exception is not
\* caught, nothing else runs and the state is left as it is.
Raise ==
    /\ status = "running" /\ pc \in LibraryLines
    /\ pc = 191 => sub = 0
    /\ Fail
    /\ UNCHANGED <<isopen, file_format, dimensions, variables, attrs, data,
                   grid, nlats, nlons, dates, calls, out>>

Next ==
    \/ OpenDataset
    \/ CreateDimension
    \/ QueryDimension
    \/ CreateVariable
    \/ QueryVariable
    \/ SetAttribute
    \/ SetHistory
    \/ PrintStmt
    \/ Mgrid
    \/ AssignLatitudes
    \/ AssignLongitudes
    \/ ReadNlats
    \/ ReadNlons
    \/ AssignRandom
    \/ AssignFormula
    \/ InitDates
    \/ AppendDate
    \/ StoreTimes
    \/ ReadDates
    \/ CloseDataset
    \/ Raise

Spec == Init /\ [][Next]_vars

(***************************************************************************)
(* Properties.                                                             *)
(***************************************************************************)
IsPrefix(a, b) == Len(a) <= Len(b) /\ SubSeq(b, 1, Len(a)) = a

Repeat(n, x) == [i \in 1..n |-> x]

\* the calls that create, define, write, convert or close (not the reads)
IsStep(c) == c.op \in {"Dataset", "createDimension", "createVariable", "setattr",
                       "setitem", "date2num", "num2date", "close"}

Steps == SelectSeq(calls, IsStep)

ExpectedSteps ==
    <<Call("Dataset", "dataset"),
      Call("createDimension", "south_north"), Call("createDimension", "west_east"),
      Call("createDimension", "time"),
      Call("createVariable", "time"), Call("createVariable", "lat"),
      Call("createVariable", "lon"), Call("createVariable", "temp")>>
    \o Repeat(3, Call("setattr", "dataset"))
    \o Repeat(3, Call("setattr", "lat")) \o Repeat(3, Call("setattr", "lon"))
    \o Repeat(4, Call("setattr", "temp")) \o Repeat(4, Call("setattr", "time"))
    \o <<Call("setitem", "lat"), Call("setitem", "lon"),
         Call("setitem", "temp"), Call("setitem", "temp"),
         Call("date2num", "netCDF4"), Call("setitem", "time"),
         Call("num2date", "netCDF4"), Call("close", "dataset")>>

\* C1: the steps run in the order open, three dimensions, four variables,
\* attributes, slices of lat/lon/temp, date2num then num2date, close: at
\* every moment the steps performed are an initial part of that order, and
\* all of it once the script has finished.  The dataset is opened once, by
\* the first library operation, and closed once, by the last; every other
\* operation (the reads included) lies between the two.
C1_StepOrder ==
    /\ IsPrefix(Steps, ExpectedSteps)
    /\ status = "done" => Steps = ExpectedSteps
    /\ calls # <<>> => calls[1].op = "Dataset"
    /\ \A i \in 1..Len(calls) : calls[i].op = "close" => i = Len(calls)
    /\ isopen = (calls # <<>> /\ calls[Len(calls)].op # "close")
    /\ (status = "done") = (calls # <<>> /\ calls[Len(calls)].op = "close")

\* a complete run
C1_Witness == status = "done" /\ pc = EndLine /\ Len(Steps) = Len(ExpectedSteps)

NoClose == \A i \in 1..Len(calls) : calls[i].op # "close"

\* C2 as stated: after a raise at any step, the Dataset call included, nothing
\* more runs, close is not called and the dataset is still open.
C2_StillOpenAfterAnyRaise ==
    /\ [](status = "raised" => NoClose /\ isopen)
    /\ [][status = "raised" => UNCHANGED vars]_vars

\* C2: a raise is not handled: once a library call has raised, no later step
\* runs and nothing changes, and close has not been called; the dataset is
\* still open unless the call that raised is the Dataset call of line 36
\* itself, in which case no dataset was ever opened.
C2_NoHandling ==
    /\ [](status = "raised" => /\ NoClose
                               /\ isopen = (pc # 36)
                               /\ isopen = (calls # <<>>))
    /\ [][status = "raised" => UNCHANGED vars]_vars

\* a raise in the middle of the run, with the dataset left open
C2_Witness == status = "raised" /\ pc = 167 /\ isopen /\ NoClose

TempShape == ShapeOf(dimensions, VarOf(variables, "temp"))

\* C3: temp has shape (0, 320, 400) from its creation until the assignment
\* of line 156 has run, and (24, 320, 400) from then on; the length of the
\* dimension time is 0 before that step and 24 after it.
C3_TempGrows ==
    HasVar(variables, "temp") =>
        /\ pc <= 156 => TempShape = <<0, 320, 400>>
        /\ pc > 156 => TempShape = <<24, 320, 400>>
        /\ DimOf(dimensions, "time").size = TempShape[1]
        /\ DOMAIN data["temp"] = Cells(TempShape)

\* right after line 156
C3_Witness == pc = 167 /\ status = "running" /\ TempShape = <<24, 320, 400>>

\* C4: num2date undoes date2num: the step of line 196 leaves the list
\* dates as lines 190-192 built it, 24 dates, the n-th being 2020-02-01 at
\* n o'clock.
C4_RoundTrip ==
    /\ [][pc = 196 /\ pc' = 197 => dates' = dates /\ Len(dates') = 24]_vars
    /\ [](pc >= 194 =>
            /\ Len(dates) = 24
            /\ \A n \in 0..23 :
                  dates[n + 1] = [year |-> 2020, month |-> 2, day |-> 1,
                                  hour |-> n, minute |-> 0, second |-> 0])

\* the dates have been read back
C4_Witness == pc = 197 /\ Len(dates) = 24 /\ calls[Len(calls)].op = "num2date"

\* C5: once defined, the dimensions are south_north (320), west_east (400)
\* and time (unlimited), in this order; time has length 0 at the query loop;
\* afterwards the set of dimensions does not change, south_north and
\* west_east keep their lengths, and only time, the one unlimited dimension,
\* changes length.
C5_Dimensions ==
    /\ [](pc > 45 =>
            /\ Len(dimensions) = 3
            /\ dimensions[1] = [name |-> "south_north", size |-> 320, unlimited |-> FALSE]
            /\ dimensions[2] = [name |-> "west_east", size |-> 400, unlimited |-> FALSE]
            /\ dimensions[3].name = "time" /\ dimensions[3].unlimited
            /\ dimensions[3].size \in {0, 24}
            /\ pc = 53 => dimensions[3].size = 0)
    /\ [][pc > 45 =>
            /\ Len(dimensions') = Len(dimensions)
            /\ \A i \in 1..Len(dimensions) :
                  /\ dimensions'[i].name = dimensions[i].name
                  /\ dimensions'[i].unlimited = dimensions[i].unlimited
                  /\ dimensions'[i].size # dimensions[i].size =>
                        dimensions[i].name = "time"]_vars

\* the dimension time has grown, the others are as defined
C5_Witness == pc = 169 /\ Len(dimensions) = 3 /\ dimensions[3].size = 24

\* C6: after line 194 the variable time holds 24 values, the n-th being
\* 167280 + n: the hours in the 6970 days from 2001-01-01 to 2020-02-01,
\* plus n; consecutive values differ by exactly 1.
C6_TimeValues ==
    pc > 194 =>
        /\ DOMAIN data["time"] = {<<n>> : n \in 0..23}
        /\ ToOrdinal(datetime(2020, 2, 1)) - ToOrdinal(datetime(2001, 1, 1)) = 6970
        /\ \A n \in 0..23 : IsRational(data["time"][<<n>>], 6970 * 24 + n, 1)
        /\ \A n \in 0..22 : FSub(data["time"][<<n + 1>>], data["time"][<<n>>], P64)
                               = FromInt(1)

\* the time coordinate has been written
C6_Witness == pc = 195 /\ status = "running" /\ data["time"][<<23>>] = FromInt(167303)

GridDone == pc = 137 \/ status = "done"

\* C7 as stated: the grid has shape (320, 400) and lat[j,k] is exactly
\* 35.5 + j*0.0265625, lon[j,k] exactly -9.5 + k*0.035.
C7_ExactCoordinates ==
    GridDone =>
        /\ grid[1].shape = <<320, 400>> /\ grid[2].shape = <<320, 400>>
        /\ \A c \in DOMAIN data["lat"] :
              IsRational(data["lat"][c], 22720 + 17 * c[1], 640)
        /\ \A c \in DOMAIN data["lon"] :
              IsRational(data["lon"][c], 7 * c[2] - 1900, 200)

\* C7: np.mgrid yields two planes of shape (320, 400), the shape of lat and
\* lon, so neither assignment of line 135 is a shape mismatch; lat[j,k] is
\* the float32 nearest to 35.5 + j*0.0265625 whatever k, lon[j,k] the float32
\* nearest to -9.5 + k*0.035 whatever j, and every lat is below 44 and every
\* lon below 4.5.
C7_Coordinates ==
    /\ grid # <<>> => grid[1].shape = <<320, 400>> /\ grid[2].shape = <<320, 400>>
    /\ pc = 135 /\ sub = 1 =>
          SetItem(dimensions, variables, data, "lat", <<All, All>>, grid[1]).ok
    /\ pc = 135 /\ sub = 2 =>
          SetItem(dimensions, variables, data, "lon", <<All, All>>, grid[2]).ok
    /\ GridDone =>
          /\ DOMAIN data["lat"] = Cells(<<320, 400>>)
          /\ DOMAIN data["lon"] = Cells(<<320, 400>>)
          /\ \A c \in DOMAIN data["lat"] :
                /\ data["lat"][c] = Nearest(22720 + 17 * c[1], 640, P32)
                /\ FCmp(data["lat"][c], FromInt(44)) < 0
          /\ \A c \in DOMAIN data["lon"] :
                /\ data["lon"][c] = Nearest(7 * c[2] - 1900, 200, P32)
                /\ FCmp(data["lon"][c], Lit(45, 10)) < 0

\* both coordinates are written, and lat[1,0] is not exactly 35.5265625
C7_Witness ==
    /\ pc = 137 /\ status = "running"
    /\ ~IsRational(data["lat"][<<1, 0>>], 22737, 640)
    /\ data["lon"][<<0, 399>>] = Nearest(893, 200, P32)

\* C8: the assignment of line 167 does not change temp's shape, which is
\* (24, 320, 400) before and after it, and overwrites every element: when the
\* dataset is closed temp[ii,jj,kk] = 10*ii + jj + kk everywhere.
C8_Overwritten ==
    /\ pc \in {167, 169} => TempShape = <<24, 320, 400>>
    /\ status = "done" =>
          /\ TempShape = <<24, 320, 400>>
          /\ DOMAIN data["temp"] = Cells(<<24, 320, 400>>)
          /\ \A c \in DOMAIN data["temp"] :
                IsRational(data["temp"][c], 10 * c[1] + c[2] + c[3], 1)

\* the file is closed with the values of line 167 in temp
C8_Witness ==
    /\ status = "done"
    /\ <<23, 319, 399>> \in DOMAIN data["temp"]
    /\ data["temp"][<<23, 319, 399>>] = FromInt(948)

=============================================================================
